---- MODULE Spec2Model ----
(***************************************************************************)
(* A model of the faculty evaluation page (src/evaluation.py): the         *)
(* document store "student_responses", the question banks, the graders'   *)
(* page sessions, and the save handler with its fan-out of grand_total.    *)
(*                                                                         *)
(* Strings are sequences of chunks: a chunk is a run of characters that    *)
(* the code never looks into (" " is the whitespace chunk).  Question IDs  *)
(* are spelled character by character, since the code inspects them.       *)
(* Python dicts are functions whose DOMAIN is the set of keys present.     *)
(***************************************************************************)
EXTENDS Integers, Sequences, FiniteSets, TLC

(***************************************************************************)
(* Bounds of the model.                                                    *)
(***************************************************************************)
\* how many saves (ticks of the server clock) a behaviour of one grader may hold
MaxSaves == 2

\* how many saves a behaviour of one grader who saves again and again may hold
MaxRetrySaves == 3

\* how many saves a behaviour of two graders may hold
MaxTeamSaves == 2

\* how many edits of the question-bank files a behaviour may hold
MaxBankEdits == 1

\* how many store calls of a behaviour may fail
MaxFailures == 1

(***************************************************************************)
(* Strings.                                                                *)
(***************************************************************************)
Space == " "

Digits == <<"0", "1", "2", "3", "4", "5", "6", "7", "8", "9">>

IsDigit(c) == \E i \in 1..Len(Digits) : Digits[i] = c

DigitVal(c) == (CHOOSE i \in 1..Len(Digits) : Digits[i] = c) - 1

\* str.isdigit(): non-empty and all characters digits
IsDigitStr(s) == Len(s) > 0 /\ \A i \in 1..Len(s) : IsDigit(s[i])

RECURSIVE LStrip(_)
LStrip(s) == IF Len(s) > 0 /\ Head(s) = Space THEN LStrip(Tail(s)) ELSE s

RECURSIVE RStrip(_)
RStrip(s) ==
    IF Len(s) > 0 /\ s[Len(s)] = Space THEN RStrip(SubSeq(s, 1, Len(s) - 1)) ELSE s

\* str.strip()
Strip(s) == RStrip(LStrip(s))

\* str.replace(c, ""): every occurrence of the character c removed
RECURSIVE RemoveChar(_, _)
RemoveChar(s, c) ==
    IF Len(s) = 0 THEN << >>
    ELSE IF Head(s) = c THEN RemoveChar(Tail(s), c)
    ELSE <<Head(s)>> \o RemoveChar(Tail(s), c)

UpperToLower ==
    [c \in {"A", "B", "C", "D", "L", "Q"} |->
        CASE c = "A" -> "a" [] c = "B" -> "b" [] c = "C" -> "c"
          [] c = "D" -> "d" [] c = "L" -> "l" [] c = "Q" -> "q"]

\* str.lower()
Lower(s) == [i \in 1..Len(s) |-> IF s[i] \in DOMAIN UpperToLower THEN UpperToLower[s[i]] ELSE s[i]]

\* the value of a digit string, base ten
RECURSIVE DecimalValue(_)
DecimalValue(s) ==
    IF Len(s) = 0 THEN 0
    ELSE 10 * DecimalValue(SubSeq(s, 1, Len(s) - 1)) + DigitVal(s[Len(s)])

(***************************************************************************)
(* Python dicts.                                                           *)
(***************************************************************************)
EmptyDict == [k \in {} |-> {}]

\* dict.get(k, default)
Get(d, k, default) == IF k \in DOMAIN d THEN d[k] ELSE default

\* the dict d with d[k] = v assigned
Put(d, k, v) == [x \in DOMAIN d \cup {k} |-> IF x = k THEN v ELSE d[x]]

\* sum(d.values()) of a dict of integers
RECURSIVE SumValues(_)
SumValues(d) ==
    IF DOMAIN d = {} THEN 0
    ELSE LET k == CHOOSE x \in DOMAIN d : TRUE
         IN d[k] + SumValues([x \in DOMAIN d \ {k} |-> d[x]])

Min(a, b) == IF a < b THEN a ELSE b

Max(a, b) == IF a > b THEN a ELSE b

(***************************************************************************)
(* Scale mapping (src/evaluation.py 81-97).                                *)
(***************************************************************************)
FOUR_POINT_QUESTIONS == {12, 13, 14, 16, 17, 18}

THREE_POINT_QUESTIONS == {22, 23, 24, 25, 28, 29, 30, 34}

\* int(str(q).replace("Q", "").strip()), and -1 when int() raises
parse_qid(q) ==
    LET s == Strip(RemoveChar(q, "Q"))
    IN IF IsDigitStr(s) THEN DecimalValue(s)
       ELSE IF Len(s) > 1 /\ s[1] \in {"+", "-"} /\ IsDigitStr(Tail(s))
            THEN (IF s[1] = "-" THEN 0 - DecimalValue(Tail(s)) ELSE DecimalValue(Tail(s)))
       ELSE 0 - 1

\* a mapping that has no scale for an id it cannot parse
get_scale_options_partial(qid) ==
    IF parse_qid(qid) = 0 - 1 THEN << >>
    ELSE IF parse_qid(qid) \in FOUR_POINT_QUESTIONS THEN <<0, 1, 2, 3>>
    ELSE IF parse_qid(qid) \in THREE_POINT_QUESTIONS THEN <<0, 1, 2>>
    ELSE <<0, 1>>

get_scale_options(qid) ==
    LET q_num == parse_qid(qid)
    IN IF q_num \in FOUR_POINT_QUESTIONS THEN <<0, 1, 2, 3>>
       ELSE IF q_num \in THREE_POINT_QUESTIONS THEN <<0, 1, 2>>
       ELSE <<0, 1>>

\* the members of a list
Range(s) == {s[i] : i \in 1..Len(s)}

(***************************************************************************)
(* Scoring functions (src/evaluation.py 167-236).  A bank is the list of   *)
(* rows of the section's table as load_csv returns it; a row is a dict of  *)
(* its non-null cells.                                                     *)
(***************************************************************************)
answer_cols == <<"Answer", "Correct", "CorrectAnswer", "Ans", "AnswerKey">>

\* the normalised correct answer of a row, or << >> for None
RECURSIVE CorrectAnswerFrom(_, _)
CorrectAnswerFrom(row, i) ==
    IF i > Len(answer_cols) THEN << >>
    ELSE IF answer_cols[i] \in DOMAIN row
         THEN RemoveChar(RemoveChar(RemoveChar(Lower(Strip(row[answer_cols[i]])),
                                               "\""), "'"), ".")
         ELSE CorrectAnswerFrom(row, i + 1)

HasAnswerColumn(row) == \E i \in 1..Len(answer_cols) : answer_cols[i] \in DOMAIN row

get_correct_answer(row) == CorrectAnswerFrom(row, 1)

\* q_lookup after the first i rows of df were entered
RECURSIVE BuildLookup(_, _)
BuildLookup(df, i) ==
    IF i = 0 THEN EmptyDict
    ELSE LET prev == BuildLookup(df, i - 1)
             row == df[i]
         IN IF "QuestionID" \notin DOMAIN row THEN prev
            ELSE LET qid_clean == Strip(row["QuestionID"])
                     one == Put(prev, qid_clean, row)
                 IN IF Len(qid_clean) > 1 /\ qid_clean[1] \in {"A", "L"}
                    THEN Put(one, Tail(qid_clean), row)
                    ELSE one

q_lookup(df) == BuildLookup(df, Len(df))

possible_keys(question_id) ==
    <<question_id>>
    \o (IF question_id[1] \in {"A", "L", "Q"} THEN <<Tail(question_id)>> ELSE << >>)
    \o (IF IsDigitStr(question_id)
        THEN <<(<<"A">> \o question_id), (<<"L">> \o question_id)>> ELSE << >>)

\* the row of the first key found in the lookup, or EmptyDict for None
RECURSIVE FirstMatch(_, _, _)
FirstMatch(lookup, keys, i) ==
    IF i > Len(keys) THEN EmptyDict
    ELSE IF keys[i] \in DOMAIN lookup THEN lookup[keys[i]]
    ELSE FirstMatch(lookup, keys, i + 1)

\* float(s) for a decimal numeral with optional sign and fraction:
\* <<TRUE, int(float(s))>>, or <<FALSE, 0>> when float() raises ValueError
ParseIntOfFloat(s) ==
    LET signed == Len(s) > 0 /\ s[1] \in {"+", "-"}
        body == IF signed THEN Tail(s) ELSE s
        dots == {i \in 1..Len(body) : body[i] = "."}
        whole == IF dots = {} THEN body
                 ELSE SubSeq(body, 1, (CHOOSE i \in dots : TRUE) - 1)
        frac == IF dots = {} THEN << >>
                ELSE SubSeq(body, (CHOOSE i \in dots : TRUE) + 1, Len(body))
        ok == /\ Cardinality(dots) <= 1
              /\ \A i \in 1..Len(whole) : IsDigit(whole[i])
              /\ \A i \in 1..Len(frac) : IsDigit(frac[i])
              /\ Len(whole) + Len(frac) > 0
        mag == DecimalValue(whole)
    IN IF ~ok THEN <<FALSE, 0>>
       ELSE <<TRUE, IF signed /\ s[1] = "-" THEN 0 - mag ELSE mag>>

\* scoring that applies the mcq and the likert logic to a row whatever its type
ResponsePointsUntyped(lookup, response) ==
    LET question_row == FirstMatch(lookup, possible_keys(Strip(response["QuestionID"])), 1)
        student_answer == Lower(Strip(response["Response"]))
    IN IF question_row = EmptyDict THEN <<0, 0>>
       ELSE <<IF student_answer = get_correct_answer(question_row) THEN 1 ELSE 0,
              IF ParseIntOfFloat(student_answer)[1]
              THEN Max(0, Min(4, ParseIntOfFloat(student_answer)[2] - 1)) ELSE 0>>

\* the <<mcq, likert>> points one response earns
ResponsePoints(lookup, response) ==
    LET question_id ==
            IF "QuestionID" \in DOMAIN response THEN Strip(response["QuestionID"])
            ELSE IF "question_id" \in DOMAIN response THEN Strip(response["question_id"])
            ELSE << >>
        student_answer ==
            IF "Response" \in DOMAIN response THEN Lower(Strip(response["Response"]))
            ELSE IF "response" \in DOMAIN response THEN Lower(Strip(response["response"]))
            ELSE << >>
    IN IF question_id = << >> \/ student_answer = << >> THEN <<0, 0>>
       ELSE LET question_row == FirstMatch(lookup, possible_keys(question_id), 1)
                q_type == Strip(Lower(Get(question_row, "Type", << >>)))
            IN IF question_row = EmptyDict THEN <<0, 0>>
               ELSE IF q_type = <<"mcq">>
                    THEN LET correct_ans == get_correct_answer(question_row)
                         IN IF correct_ans # << >> /\ student_answer = correct_ans
                            THEN <<1, 0>> ELSE <<0, 0>>
               ELSE IF q_type = <<"likert">>
                    THEN LET parsed == ParseIntOfFloat(student_answer)
                         IN IF parsed[1]
                            THEN <<0, Max(0, Min(4, parsed[2] - 1))>> ELSE <<0, 0>>
               ELSE <<0, 0>>

RECURSIVE ScoreFrom(_, _, _)
ScoreFrom(lookup, responses, i) ==
    IF i > Len(responses) THEN <<0, 0>>
    ELSE LET here == ResponsePoints(lookup, responses[i])
             rest == ScoreFrom(lookup, responses, i + 1)
         IN <<here[1] + rest[1], here[2] + rest[2]>>

\* <<mcq_score, likert_score>>
calculate_auto_scores(df, responses) == ScoreFrom(q_lookup(df), responses, 1)

\* the QuestionIDs of the short/descriptive rows, in bank order
RECURSIVE ManualFrom(_, _)
ManualFrom(df, i) ==
    IF i > Len(df) THEN << >>
    ELSE (IF Get(df[i], "Type", << >>) \in {<<"short">>, <<"descriptive">>}
          THEN <<df[i]["QuestionID"]>> ELSE << >>) \o ManualFrom(df, i + 1)

manual_questions(df) == ManualFrom(df, 1)

(***************************************************************************)
(* The deployment the model runs: the graders, the bank files and their    *)
(* revisions, and the submissions the intake process left in the store.    *)
(***************************************************************************)
Graders == {"g1", "g2"}

Aptitude == <<"Aptitude Test">>

Adaptability == <<"Adaptability & Learning">>

Objective == <<"Communication Skills - Objective">>

Descriptive == <<"Communication Skills - Descriptive">>

Sections == {Aptitude, Adaptability, Objective, Descriptive}

Q1 == <<"Q", "1">>

Q2 == <<"Q", "2">>

Q12 == <<"Q", "1", "2">>

L1 == <<"L", "1">>

Row(qid, type) == [QuestionID |-> qid, Type |-> <<type>>, Question |-> <<"text">>]

McqRow(qid, answer) ==
    [QuestionID |-> qid, Type |-> <<"mcq">>, Question |-> <<"text">>, Answer |-> answer]

\* the bank files as first deployed
InitialBanks ==
    [s \in Sections |->
        CASE s = Aptitude -> <<McqRow(Q1, <<"B">>), Row(Q12, "short")>>
          [] s = Adaptability -> <<Row(L1, "likert")>>
          [] s = Objective -> <<McqRow(Q1, <<"A">>)>>
          [] s = Descriptive -> <<Row(Q2, "descriptive")>>]

\* the contents a maintainer may later give a bank file
BankRevisions ==
    [s \in Sections |->
        CASE s = Aptitude -> {<<McqRow(Q1, <<"B">>), McqRow(Q12, <<"text">>)>>}
          [] s = Adaptability -> {}
          [] s = Objective -> {}
          [] s = Descriptive -> {}]

Answer(qid, text) == [QuestionID |-> qid, Response |-> text]

\* document ids, in the order the store streams them
DocIds == <<"d1", "d2", "d3", "d4">>

Docs == Range(DocIds)

InitialStore ==
    [d \in Docs |->
        CASE d = "d1" -> [Roll |-> <<"R1">>, Section |-> Aptitude,
                          Responses |-> <<Answer(Q1, <<"b">>), Answer(Q12, <<"text">>)>>]
          [] d = "d2" -> [Roll |-> <<"R1">>, Section |-> Descriptive,
                          Responses |-> <<Answer(Q2, <<"text">>)>>]
          [] d = "d3" -> [Roll |-> <<"R1", " ">>, Section |-> Adaptability,
                          Responses |-> <<Answer(L1, <<"3">>)>>]
          [] d = "d4" -> [Roll |-> <<"R2">>, Section |-> Objective,
                          Responses |-> <<Answer(Q1, <<"c">>)>>]]

(***************************************************************************)
(* State.                                                                  *)
(***************************************************************************)
VARIABLES
    store,          \* collection student_responses: doc id -> document (a dict)
    csv,            \* the bank files: section -> rows
    edits,          \* how many times a bank file was edited
    now,            \* the server clock: the last timestamp it handed out
    cache,          \* the roll_map st.cache_data holds for load_all_student_data
    pc,             \* grader -> "closed" | "form" | "fanout"
    selected_roll,  \* grader -> the roll chosen in the first selectbox
    selected_test,  \* grader -> the section chosen in the second selectbox
    widget,         \* grader -> the radio values of the form: question id -> mark
    pending,        \* grader -> the documents the fan-out loop has still to update
    held,           \* grader -> the values the running save handler holds
    prior,          \* grader -> history: the grader's last completed save
    failures,       \* history: how many store calls have failed
    probe,          \* the input a function of the code is applied to (NoProbe: none)
    answer          \* what the function returned (NoAnswer: not applied yet)

\* the state of the page, the banks and the store
page == <<store, csv, edits, now, cache, pc, selected_roll, selected_test, widget,
          pending, held, prior, failures>>

vars == <<page, probe, answer>>

(***************************************************************************)
(* load_all_student_data (src/evaluation.py 102-128).                      *)
(***************************************************************************)
\* roll_map after the first i documents of the stream
\* the field values that are not strings: a null and a number
NotAString == {<<"#null">>, <<"#number">>}

\* data.get(key, "").strip() raises AttributeError when the stored value has no strip
StripRaises(data, key) == key \in DOMAIN data /\ data[key] \in NotAString

\* some document of the stream makes the loop raise; the try block encloses the loop
LoadRaises(st) ==
    \E i \in 1..Len(DocIds) :
        StripRaises(st[DocIds[i]], "Roll") \/ StripRaises(st[DocIds[i]], "Section")

RECURSIVE LoadFrom(_, _)
LoadFrom(st, i) ==
    IF i = 0 THEN EmptyDict
    ELSE LET roll_map == LoadFrom(st, i - 1)
             doc_id == DocIds[i]
             data == st[doc_id]
             roll == Strip(Get(data, "Roll", << >>))
             section == Strip(Get(data, "Section", << >>))
             item == [doc_id |-> doc_id,
                      section |-> section,
                      responses |-> Get(data, "Responses", << >>),
                      evaluation |-> Get(data, "Evaluation", EmptyDict)]
         IN IF roll # << >> /\ section # << >>
            THEN Put(roll_map, roll, Append(Get(roll_map, roll, << >>), item))
            ELSE roll_map

load_all_student_data(st) ==
    IF LoadRaises(st) THEN EmptyDict ELSE LoadFrom(st, Len(DocIds))

(***************************************************************************)
(* load_all_evaluations (src/dashboard_app.py 44-86): the rows of the      *)
(* dashboard's DataFrame, and no row when the loop raises.                 *)
(***************************************************************************)
RECURSIVE EvaluationsFrom(_, _)
EvaluationsFrom(st, i) ==
    IF i = 0 THEN << >>
    ELSE LET students_data == EvaluationsFrom(st, i - 1)
             doc_id == DocIds[i]
             data == st[doc_id]
             roll_number == Strip(Get(data, "Roll", << >>))
             evaluation == Get(data, "Evaluation", EmptyDict)
             student_info == [roll_number |-> roll_number,
                              section |-> Strip(Get(data, "Section", << >>)),
                              auto_mcq |-> Get(evaluation, "auto_mcq", 0),
                              auto_likert |-> Get(evaluation, "auto_likert", 0),
                              manual_total |-> Get(evaluation, "manual_total", 0),
                              final_total |-> Get(evaluation, "final_total", 0),
                              grand_total |-> Get(evaluation, "grand_total", 0),
                              doc_id |-> doc_id,
                              is_fully_evaluated |-> evaluation # EmptyDict]
         IN IF roll_number = << >> \/ roll_number = <<"Unknown">>
            THEN students_data
            ELSE Append(students_data, student_info)

load_all_evaluations(st) ==
    IF LoadRaises(st) THEN << >> ELSE EvaluationsFrom(st, Len(DocIds))

(***************************************************************************)
(* The export page (src/export_marks.py 42-153): the rows of the exported  *)
(* table, one per document, sorted and with the repeated grand totals      *)
(* blanked.  A cell is a number, None, the marker "N/A" or the empty       *)
(* string.                                                                 *)
(***************************************************************************)
SECTION_ORDER == <<Adaptability, Aptitude, Descriptive, Objective>>

\* the Roll values of the collection as sort_values orders them (string order)
StoredRollOrder == << <<"R1">>, <<"R1", " ">>, <<"R2">> >>

NoneCell == [kind |-> "None", n |-> 0]

NACell == [kind |-> "N/A", n |-> 0]

BlankCell == [kind |-> "", n |-> 0]

Num(n) == [kind |-> "num", n |-> n]

\* evalb.get(key)
Extract(evalb, key) == IF key \in DOMAIN evalb THEN Num(evalb[key]) ELSE NoneCell

\* x if x not in (None, "") else "N/A"
Show(x) == IF x.kind \in {"None", ""} THEN NACell ELSE x

\* (x or 0)
OrZero(x) == IF x.kind = "num" THEN x.n ELSE 0

MarksRow(roll, section, mcq_show, likert_show, text_show, final_show, grand) ==
    ("Roll Number" :> roll) @@ ("Section" :> section) @@ ("MCQ Score" :> mcq_show)
    @@ ("Likert Score" :> likert_show) @@ ("Text Score" :> text_show)
    @@ ("Final Score (This Test)" :> final_show) @@ ("Grand Total (All Tests)" :> grand)

\* the row appended for a document that has a Roll and a Section
ExportRow(data) ==
    LET roll == data["Roll"]
        section == data["Section"]
        evalb == Get(data, "Evaluation", EmptyDict)
        mcq == Extract(evalb, "mcq_total")
        likert == Extract(evalb, "likert_total")
        text == Extract(evalb, "text_total")
        grand == Extract(evalb, "grand_total")
    IN CASE section = Adaptability ->
                MarksRow(roll, section, NACell, Show(likert), NACell, Show(likert), grand)
         [] section = Aptitude ->
                MarksRow(roll, section, Show(mcq), NACell, Show(text),
                         Num(OrZero(mcq) + OrZero(text)), grand)
         [] section = Descriptive ->
                MarksRow(roll, section, NACell, NACell, Show(text), Show(text), grand)
         [] section = Objective ->
                MarksRow(roll, section, Show(mcq), NACell, NACell, Show(mcq), grand)
         [] OTHER ->
                MarksRow(roll, section, NACell, NACell, NACell, NACell, grand)

\* rows after the first i documents of list_documents()
RECURSIVE ExportRowsFrom(_, _)
ExportRowsFrom(st, i) ==
    IF i = 0 THEN << >>
    ELSE LET data == st[DocIds[i]]
         IN IF Get(data, "Roll", << >>) = << >> \/ Get(data, "Section", << >>) = << >>
            THEN ExportRowsFrom(st, i - 1)
            ELSE Append(ExportRowsFrom(st, i - 1), ExportRow(data))

\* the rows of one Roll, in SECTION_ORDER from position j on
RECURSIVE SortSections(_, _, _)
SortSections(rows, roll, j) ==
    IF j > Len(SECTION_ORDER) THEN << >>
    ELSE SelectSeq(rows, LAMBDA r : r["Roll Number"] = roll /\ r["Section"] = SECTION_ORDER[j])
         \o SortSections(rows, roll, j + 1)

\* df.sort_values(["Roll Number", "Section"]), from the i-th Roll on
RECURSIVE SortRolls(_, _)
SortRolls(rows, i) ==
    IF i > Len(StoredRollOrder) THEN << >>
    ELSE SortSections(rows, StoredRollOrder[i], 1) \o SortRolls(rows, i + 1)

\* the loop that shows the grand total on the first row of each Roll only
clean_rows(df) ==
    [i \in 1..Len(df) |->
        IF i > 1 /\ df[i]["Roll Number"] = df[i - 1]["Roll Number"]
        THEN [df[i] EXCEPT !["Grand Total (All Tests)"] = BlankCell]
        ELSE df[i]]

\* df_final, the exported table
df_final(st) == clean_rows(SortRolls(ExportRowsFrom(st, Len(DocIds)), 1))

(***************************************************************************)
(* One run of the page script (src/evaluation.py 133-349): what it         *)
(* computes from the cached roll_map, the two selectboxes, the bank files  *)
(* and the radio values the session holds.                                 *)
(***************************************************************************)
\* the rolls in sorted() order
SortedRolls == << <<"R1">>, <<"R2">> >>

\* sorted(roll_map.keys())[0], the selectbox's first option
FirstRoll(roll_map) ==
    SortedRolls[CHOOSE i \in 1..Len(SortedRolls) :
                    /\ SortedRolls[i] \in DOMAIN roll_map
                    /\ \A j \in 1..(i - 1) : SortedRolls[j] \notin DOMAIN roll_map]

\* set(item["section"] for item in student_data)
available_tests(student_data) == {student_data[i].section : i \in 1..Len(student_data)}

\* the first item of the student whose section is the selected test
selected_doc(student_data, test) ==
    student_data[CHOOSE i \in 1..Len(student_data) :
                     /\ student_data[i].section = test
                     /\ \A j \in 1..(i - 1) : student_data[j].section # test]

\* a radio that offers the widest scale for every question
RadioOptionsWidest(qid) == <<0, 1, 2, 3, 4, 5>>

\* the options st.radio offers for a question
RadioOptions(qid) == get_scale_options(qid)

\* a default that ignores the stored mark
default_mark_zero(manual_marks, qid) == 0

\* a default that clamps an out-of-scale mark to the top of the scale
default_mark_clamped(manual_marks, qid) ==
    Min(Max(Get(manual_marks, qid, 0), 0), Len(get_scale_options(qid)) - 1)

\* default_mark of a question, given the marks dict the loop holds
default_mark(manual_marks, qid) ==
    LET stored == Get(manual_marks, qid, 0)
    IN IF stored \in Range(get_scale_options(qid)) THEN stored ELSE 0

\* the loop of evaluate_manual_questions over the first i manual questions:
\* total, marks dict and the radio values rendered, w being the session's values
RECURSIVE ManualLoop(_, _, _, _)
ManualLoop(questions, existing, w, i) ==
    IF i = 0 THEN [manual_total |-> 0, manual_marks |-> existing, form |-> EmptyDict]
    ELSE LET sofar == ManualLoop(questions, existing, w, i - 1)
             qid == questions[i]
             mark == IF qid \in DOMAIN w /\ w[qid] \in Range(RadioOptions(qid))
                     THEN w[qid]
                     ELSE default_mark(sofar.manual_marks, qid)
         IN [manual_total |-> sofar.manual_total + mark,
             manual_marks |-> Put(sofar.manual_marks, qid, mark),
             form |-> Put(sofar.form, qid, mark)]

evaluate_manual_questions(df_test, existing_manual_marks, w) ==
    LET questions == manual_questions(df_test)
    IN ManualLoop(questions, existing_manual_marks, w, Len(questions))

\* the status and score of one item of the progress table
test_progress(item, current_test_id, current_test_score) ==
    LET test_eval == item.evaluation
    IN IF item.doc_id = current_test_id
       THEN [Test |-> item.section,
             Status |-> IF "final_total" \in DOMAIN test_eval
                           /\ test_eval["final_total"] = current_test_score
                        THEN "Saved" ELSE "Editing",
             Score |-> current_test_score]
       ELSE IF "final_total" \notin DOMAIN test_eval
            THEN [Test |-> item.section, Status |-> "Pending", Score |-> 0]
            ELSE [Test |-> item.section, Status |-> "Saved",
                  Score |-> test_eval["final_total"]]

RECURSIVE SumScores(_, _)
SumScores(rows, i) == IF i = 0 THEN 0 ELSE SumScores(rows, i - 1) + rows[i].Score

\* <<grand_total, all_tests_data>>
calculate_real_time_totals(student_data, current_test_id, current_test_score) ==
    LET all_tests_data ==
            [i \in 1..Len(student_data) |->
                test_progress(student_data[i], current_test_id, current_test_score)]
    IN <<SumScores(all_tests_data, Len(all_tests_data)), all_tests_data>>

\* a final score that leaves the Likert score out
final_score_without_likert(auto_mcq, auto_likert, manual_total) == auto_mcq + manual_total

\* final_score = auto_mcq + auto_likert + manual_total
final_score(auto_mcq, auto_likert, manual_total) == auto_mcq + auto_likert + manual_total

\* the values of a run, given its auto scores, manual result and final score
PageValues(student_data, doc, auto, manual, final) ==
    [doc_id |-> doc.doc_id,
     auto_mcq |-> auto[1],
     auto_likert |-> auto[2],
     manual_total |-> manual.manual_total,
     manual_marks |-> manual.manual_marks,
     form |-> manual.form,
     final_score |-> final,
     real_time_grand_total |->
         calculate_real_time_totals(student_data, doc.doc_id, final)[1],
     progress_data |->
         calculate_real_time_totals(student_data, doc.doc_id, final)[2]]

\* the run for the selected document: auto scores recalculated, manual marks
\* taken from the form, final score of the test, real-time totals
PageForDoc(student_data, doc, auto, manual) ==
    PageValues(student_data, doc, auto, manual,
               final_score(auto[1], auto[2], manual.manual_total))

\* a run that shows the stored auto scores when the document has some
PageForSelectionStored(student_data, doc, df_test, w) ==
    PageForDoc(student_data, doc,
               IF "auto_mcq" \in DOMAIN doc.evaluation
               THEN <<doc.evaluation["auto_mcq"], doc.evaluation["auto_likert"]>>
               ELSE calculate_auto_scores(df_test, doc.responses),
               evaluate_manual_questions(
                   df_test, Get(doc.evaluation, "manual_marks", EmptyDict), w))

PageForSelection(student_data, doc, df_test, w) ==
    PageForDoc(student_data, doc,
               calculate_auto_scores(df_test, doc.responses),
               evaluate_manual_questions(
                   df_test, Get(doc.evaluation, "manual_marks", EmptyDict), w))

\* everything one run of the script computes
Page(roll_map, roll, test, w) ==
    PageForSelection(roll_map[roll], selected_doc(roll_map[roll], test), csv[test], w)

\* Test_Score of one item of the downloadable report, p being the run's values
ReportTestScore(item, p) ==
    IF item.doc_id = p.doc_id THEN p.final_score
    ELSE calculate_auto_scores(csv[item.section], item.responses)[1]
         + calculate_auto_scores(csv[item.section], item.responses)[2]
         + Get(item.evaluation, "manual_total", 0)

\* export_grand_total over the first i items
RECURSIVE SumTestScores(_, _, _)
SumTestScores(student_data, p, i) ==
    IF i = 0 THEN 0
    ELSE SumTestScores(student_data, p, i - 1) + ReportTestScore(student_data[i], p)

export_grand_total(student_data, p) == SumTestScores(student_data, p, Len(student_data))

\* the page a grader's session computes from the cache as it is
PageOf(g) == Page(cache, selected_roll[g], selected_test[g], widget[g])

(***************************************************************************)
(* Initial state: the submissions as the intake process stored them, no    *)
(* Evaluation yet, the banks as deployed, nothing cached, no page open.    *)
(***************************************************************************)
NoHold ==
    [doc_id |-> "", grand_total |-> 0, stamp |-> 0, repeat |-> FALSE, before |-> EmptyDict]

NoPrior == EmptyDict

NoProbe == EmptyDict

NoAnswer == EmptyDict

\* the page as deployed, nothing opened
PageInit ==
    /\ store = InitialStore
    /\ csv = InitialBanks
    /\ edits = 0
    /\ now = 0
    /\ cache = EmptyDict
    /\ pc = [g \in Graders |-> "closed"]
    /\ selected_roll = [g \in Graders |-> << >>]
    /\ selected_test = [g \in Graders |-> << >>]
    /\ widget = [g \in Graders |-> EmptyDict]
    /\ pending = [g \in Graders |-> << >>]
    /\ held = [g \in Graders |-> NoHold]
    /\ prior = [g \in Graders |-> NoPrior]
    /\ failures = 0

Init ==
    /\ PageInit
    /\ probe = NoProbe
    /\ answer = NoAnswer

(***************************************************************************)
(* Page runs that write nothing.                                           *)
(***************************************************************************)
\* the session after a run with this roll_map, these selections and radio values
Render(g, roll_map, roll, test, w) ==
    /\ cache' = roll_map
    /\ selected_roll' = [selected_roll EXCEPT ![g] = roll]
    /\ selected_test' = [selected_test EXCEPT ![g] = test]
    /\ widget' = [widget EXCEPT ![g] = Page(roll_map, roll, test, w).form]

\* a grader opens the page: the data comes from the cache, or is loaded when
\* nothing is cached; the first roll is selected and one of the student's tests
\* (a set of strings has no fixed order)
OpenPage(g) ==
    /\ pc[g] = "closed"
    /\ LET roll_map == IF cache = EmptyDict THEN load_all_student_data(store) ELSE cache
           roll == FirstRoll(roll_map)
       IN \E test \in available_tests(roll_map[roll]) :
              Render(g, roll_map, roll, test, EmptyDict)
    /\ pc' = [pc EXCEPT ![g] = "form"]
    /\ UNCHANGED <<store, csv, edits, now, pending, held, prior, failures>>
    /\ UNCHANGED <<probe, answer>>

\* the grader picks another student; the test selectbox starts over
SelectStudent(g) ==
    /\ pc[g] = "form"
    /\ \E roll \in DOMAIN cache \ {selected_roll[g]} :
         \E test \in available_tests(cache[roll]) :
             Render(g, cache, roll, test, EmptyDict)
    /\ prior' = [prior EXCEPT ![g] = NoPrior]
    /\ UNCHANGED <<store, csv, edits, now, pc, pending, held, failures>>
    /\ UNCHANGED <<probe, answer>>

\* the grader picks another test of the same student
SelectTest(g) ==
    /\ pc[g] = "form"
    /\ \E test \in available_tests(cache[selected_roll[g]]) \ {selected_test[g]} :
           Render(g, cache, selected_roll[g], test, EmptyDict)
    /\ prior' = [prior EXCEPT ![g] = NoPrior]
    /\ UNCHANGED <<store, csv, edits, now, pc, pending, held, failures>>
    /\ UNCHANGED <<probe, answer>>

\* the grader moves one radio of the form to another of its options
SetMark(g) ==
    /\ pc[g] = "form"
    /\ \E qid \in DOMAIN widget[g] :
         \E mark \in Range(RadioOptions(qid)) \ {widget[g][qid]} :
             Render(g, cache, selected_roll[g], selected_test[g],
                    Put(widget[g], qid, mark))
    /\ prior' = [prior EXCEPT ![g] = NoPrior]
    /\ UNCHANGED <<store, csv, edits, now, pc, pending, held, failures>>
    /\ UNCHANGED <<probe, answer>>

\* "Refresh Data Only" / "Clear Cache & Refresh", or a run after the cache's
\* 30 seconds have passed: the data is loaded again
RefreshData(g) ==
    /\ pc[g] = "form"
    /\ Render(g, load_all_student_data(store), selected_roll[g], selected_test[g],
              widget[g])
    /\ UNCHANGED <<store, csv, edits, now, pc, pending, held, prior, failures>>
    /\ UNCHANGED <<probe, answer>>

(***************************************************************************)
(* The save handler (src/evaluation.py 430-471), one store call a step.    *)
(***************************************************************************)
\* document.update({"Evaluation": evaluation_data})
WriteEvaluation(st, doc_id, data) ==
    [st EXCEPT ![doc_id] = Put(st[doc_id], "Evaluation", data)]

\* the field path a fan-out update assigns
FanOutField == "grand_total"

\* an update that assigns the whole Evaluation field instead of the nested one
WriteGrandTotalWhole(st, doc_id, grand_total) ==
    [st EXCEPT ![doc_id] = Put(st[doc_id], "Evaluation", ("grand_total" :> grand_total))]

\* reference.update({"Evaluation.grand_total": grand_total})
WriteGrandTotal(st, doc_id, grand_total) ==
    [st EXCEPT ![doc_id] =
        Put(st[doc_id], "Evaluation",
            Put(Get(st[doc_id], "Evaluation", EmptyDict), FanOutField, grand_total))]

\* where("Roll", "==", roll).stream(): the matching document ids from position i on
RECURSIVE WhereRollFrom(_, _, _)
WhereRollFrom(st, roll, i) ==
    IF i > Len(DocIds) THEN << >>
    ELSE (IF Get(st[DocIds[i]], "Roll", << >>) = roll THEN <<DocIds[i]>> ELSE << >>)
         \o WhereRollFrom(st, roll, i + 1)

WhereRoll(st, roll) == WhereRollFrom(st, roll, 1)

\* the dict the handler writes for the page p at server time t
evaluation_data(p, t) ==
    [auto_mcq |-> p.auto_mcq,
     auto_likert |-> p.auto_likert,
     manual_marks |-> p.manual_marks,
     manual_total |-> p.manual_total,
     final_total |-> p.final_score,
     evaluated_at |-> t,
     grand_total |-> p.real_time_grand_total]

\* the Evaluation a document stores ({} when it stores none)
EvalOf(st, d) == Get(st[d], "Evaluation", EmptyDict)

\* the documents load_all_student_data groups under a roll
StudentDocs(st, roll) == {d \in Docs : Strip(Get(st[d], "Roll", << >>)) = roll}

\* history: the other graders' completed saves are no longer the last save
Interrupt(g) == prior' = [h \in Graders |-> IF h = g THEN prior[g] ELSE NoPrior]

\* the handler's writes and bookkeeping for the page p the run computed
SaveWith(g, p) ==
    /\ store' = WriteEvaluation(store, p.doc_id, evaluation_data(p, now + 1))
    /\ held' = [held EXCEPT ![g] =
                  [doc_id |-> p.doc_id,
                   grand_total |-> p.real_time_grand_total,
                   stamp |-> now + 1,
                   repeat |-> /\ prior[g] # NoPrior
                              /\ prior[g].doc_id = p.doc_id
                              /\ prior[g].form = p.form,
                   before |-> store]]
    /\ widget' = [widget EXCEPT ![g] = p.form]

\* the button is pressed: the script runs, and the section's Evaluation is written
\* (budget bounds the saves of the behaviour)
Save(g, budget) ==
    /\ pc[g] = "form"
    /\ now < budget
    /\ SaveWith(g, PageOf(g))
    /\ now' = now + 1
    /\ pending' = [pending EXCEPT ![g] = WhereRoll(store, selected_roll[g])]
    /\ pc' = [pc EXCEPT ![g] = "fanout"]
    /\ Interrupt(g)
    /\ UNCHANGED <<csv, edits, cache, selected_roll, selected_test, failures>>
    /\ UNCHANGED <<probe, answer>>

\* one turn of the fan-out loop
UpdateGrandTotal(g) ==
    /\ pc[g] = "fanout"
    /\ pending[g] # << >>
    /\ store' = WriteGrandTotal(store, Head(pending[g]), held[g].grand_total)
    /\ pending' = [pending EXCEPT ![g] = Tail(pending[g])]
    /\ Interrupt(g)
    /\ UNCHANGED <<csv, edits, now, cache, pc, selected_roll, selected_test, widget, held,
                   failures>>
    /\ UNCHANGED <<probe, answer>>

\* the loop is over: the caches are cleared and the script runs again
SaveDone(g) ==
    /\ pc[g] = "fanout"
    /\ pending[g] = << >>
    /\ Render(g, load_all_student_data(store), selected_roll[g], selected_test[g],
              widget[g])
    /\ pc' = [pc EXCEPT ![g] = "form"]
    /\ held' = [held EXCEPT ![g] = NoHold]
    /\ prior' = [prior EXCEPT ![g] =
                    [doc_id |-> held[g].doc_id,
                     stamp |-> held[g].stamp,
                     form |-> widget[g],
                     evals |-> [d \in StudentDocs(store, selected_roll[g]) |->
                                   EvalOf(store, d)]]]
    /\ UNCHANGED <<store, csv, edits, now, pending, failures>>
    /\ UNCHANGED <<probe, answer>>

\* a store call of the handler raises (the first update, the query or a fan-out
\* update): the except branch reports it, and the run ends without the cache
\* clear and without the rerun
StoreFailure(g) ==
    /\ failures < MaxFailures
    /\ failures' = failures + 1
    /\ \/ /\ pc[g] = "form"
          /\ widget' = [widget EXCEPT ![g] = PageOf(g).form]
       \/ /\ pc[g] = "fanout"
          /\ pending[g] # << >>
          /\ UNCHANGED widget
    /\ pc' = [pc EXCEPT ![g] = "form"]
    /\ pending' = [pending EXCEPT ![g] = << >>]
    /\ held' = [held EXCEPT ![g] = NoHold]
    /\ prior' = [prior EXCEPT ![g] = NoPrior]
    /\ UNCHANGED <<store, csv, edits, now, cache, selected_roll, selected_test>>
    /\ UNCHANGED <<probe, answer>>

(***************************************************************************)
(* The environment: a maintainer replaces a bank file.                     *)
(***************************************************************************)
EditBank(s) ==
    /\ edits < MaxBankEdits
    /\ \E df \in BankRevisions[s] \ {csv[s]} : csv' = [csv EXCEPT ![s] = df]
    /\ edits' = edits + 1
    /\ UNCHANGED <<store, now, cache, pc, selected_roll, selected_test, widget,
                   pending, held, prior, failures>>
    /\ UNCHANGED <<probe, answer>>

(***************************************************************************)
(* One grader at the page: the store may fail, the banks may be edited.    *)
(***************************************************************************)
Solo == "g1"

SaveEvaluation(g) == Save(g, MaxSaves)

Next ==
    \/ OpenPage(Solo)
    \/ SelectStudent(Solo)
    \/ SelectTest(Solo)
    \/ SetMark(Solo)
    \/ RefreshData(Solo)
    \/ SaveEvaluation(Solo)
    \/ UpdateGrandTotal(Solo)
    \/ SaveDone(Solo)
    \/ StoreFailure(Solo)
    \/ \E s \in Sections : EditBank(s)

Spec == Init /\ [][Next]_vars

(***************************************************************************)
(* One grader at the page, over a longer run of saves.                     *)
(***************************************************************************)
RetrySave == Save(Solo, MaxRetrySaves)

RetryNext ==
    \/ OpenPage(Solo)
    \/ SelectStudent(Solo)
    \/ SelectTest(Solo)
    \/ SetMark(Solo)
    \/ RefreshData(Solo)
    \/ RetrySave
    \/ UpdateGrandTotal(Solo)
    \/ SaveDone(Solo)
    \/ StoreFailure(Solo)
    \/ \E s \in Sections : EditBank(s)

RetrySpec == Init /\ [][RetryNext]_vars

(***************************************************************************)
(* Two graders at the page at once, each in a session of their own, over   *)
(* a store that answers every call.                                        *)
(***************************************************************************)
TeamSave(g) == Save(g, MaxTeamSaves)

TeamNext ==
    \/ \E g \in Graders : OpenPage(g)
    \/ \E g \in Graders : SelectStudent(g)
    \/ \E g \in Graders : SelectTest(g)
    \/ \E g \in Graders : SetMark(g)
    \/ \E g \in Graders : RefreshData(g)
    \/ \E g \in Graders : TeamSave(g)
    \/ \E g \in Graders : UpdateGrandTotal(g)
    \/ \E g \in Graders : SaveDone(g)
    \/ \E s \in Sections : EditBank(s)

TeamSpec == Init /\ [][TeamNext]_vars

(***************************************************************************)
(* The scoring function on its own (src/evaluation.py 176-236): a bank and *)
(* a list of responses are drawn, and calculate_auto_scores is applied.    *)
(***************************************************************************)
\* how many responses a drawn submission may hold
MaxResponses == 2

\* the largest mark a stored manual_marks entry holds
MaxStoredMark == 4

\* the longest question id the scale mapping is applied to
MaxIdLen == 3

\* the sequences over S of length 1..n
SeqsUpTo(S, n) == UNION {[1..k -> S] : k \in 1..n}

\* what a student may have sent for a Likert question
LikertTexts ==
    {<<"0">>, <<"1">>, <<"2">>, <<"3">>, <<"4">>, <<"5">>, <<"6">>, <<"7">>,
     <<"1", "0">>, <<"-", "1">>, <<" ", "3", " ">>, <<"x">>}

LikertInputs ==
    {[kind |-> "likert",
      df |-> <<Row(L1, "likert")>>,
      responses |-> [i \in DOMAIN texts |-> Answer(L1, texts[i])]] :
        texts \in SeqsUpTo(LikertTexts, MaxResponses)}

\* what a bank may record as the correct answer of an mcq question, and what a
\* student may have sent for it
McqTexts ==
    {<<"B">>, <<"b">>, <<"C">>, <<" ", "B", " ">>, <<"B", ".">>, <<"a", ".", "b">>,
     <<"'", "B", "'">>, <<" ">>}

\* a response to Q1: with the text, or without a Response field
McqResponses == {Answer(Q1, text) : text \in McqTexts} \cup {[QuestionID |-> Q1]}

McqInputs ==
    {[kind |-> "mcq", df |-> <<McqRow(Q1, correct)>>, responses |-> responses] :
        correct \in McqTexts \ {<<" ">>},
        responses \in SeqsUpTo(McqResponses, MaxResponses)}

\* the names a bank file may give its answer-key column
KeyColumns == {"Answer", "Correct", "CorrectAnswer", "Ans", "AnswerKey", "RightAnswer"}

\* an mcq row of Q1 whose key columns and their values are the dict keys
KeyRow(keys) ==
    [c \in {"QuestionID", "Type", "Question"} \cup DOMAIN keys |->
        CASE c = "QuestionID" -> Q1
          [] c = "Type" -> <<"mcq">>
          [] c = "Question" -> <<"text">>
          [] OTHER -> keys[c]]

\* one key column, or two that disagree
KeyDicts ==
    {(c :> <<v>>) : c \in KeyColumns, v \in {"B", "C"}}
    \cup UNION {{(c1 :> <<"B">>) @@ (c2 :> <<"C">>) : c2 \in KeyColumns \ {c1}} :
                    c1 \in KeyColumns}

KeyInputs ==
    {[kind |-> "key", df |-> <<KeyRow(keys)>>, responses |-> <<Answer(Q1, <<text>>)>>] :
        keys \in KeyDicts, text \in {"b", "c"}}

\* the question ids a bank row or a response may carry: bare, prefixed, padded
LookupIds == {<<"1">>, <<"A", "1">>, <<"L", "1">>, <<"Q", "1">>, <<" ", "L", "1">>, <<"Q", "2">>}

\* rows that score the response text "3": an mcq row whose answer is 3, a likert row
LookupRows ==
    {McqRow(id, <<"3">>) : id \in LookupIds} \cup {Row(id, "likert") : id \in LookupIds}

\* banks of one row, or of two rows with different trimmed ids, and one response
LookupInputs ==
    {[kind |-> "lookup", df |-> df, responses |-> <<Answer(id, <<"3">>)>>] :
        df \in {<<r>> : r \in LookupRows}
               \cup {rr \in LookupRows \X LookupRows :
                        Strip(rr[1]["QuestionID"]) # Strip(rr[2]["QuestionID"])},
        id \in LookupIds}

\* the values a bank's Type column may hold
TypeValues == {<<"mcq">>, <<"likert">>, <<"short">>, <<"descriptive">>, <<"essay">>, <<" ", "mcq">>}

\* a row of each type that carries an answer key, and the response that equals it
TypeInputs ==
    {[kind |-> "type",
      df |-> <<[QuestionID |-> Q1, Type |-> type, Question |-> <<"text">>, Answer |-> text]>>,
      responses |-> <<Answer(Q1, text)>>] :
        type \in TypeValues, text \in {<<"3">>, <<"5">>, <<"B">>}}

ScoringInputs == LikertInputs \cup McqInputs \cup KeyInputs \cup LookupInputs \cup TypeInputs

ScoringInit ==
    /\ PageInit
    /\ probe \in ScoringInputs
    /\ answer = NoAnswer

\* auto_mcq, auto_likert = calculate_auto_scores(df_test, responses)
Score ==
    /\ answer = NoAnswer
    /\ answer' = [scores |-> calculate_auto_scores(probe.df, probe.responses)]
    /\ UNCHANGED <<page, probe>>

ScoringNext == Score

ScoringSpec == ScoringInit /\ [][ScoringNext]_vars

(***************************************************************************)
(* Reading an evaluation back (src/evaluation.py 333-343): the manual form *)
(* applied to a bank of three text questions, one of each scale, and to a  *)
(* stored manual_marks dict, in a session that holds no radio value yet.   *)
(***************************************************************************)
Q22 == <<"Q", "2", "2">>

ReadBackBank == <<Row(Q12, "short"), Row(Q22, "short"), Row(Q2, "descriptive")>>

\* the dicts over some of the questions, with marks inside and outside the scales
StoredMarkDicts ==
    UNION {[keys -> (0 - 1)..MaxStoredMark] : keys \in SUBSET {Q12, Q22, Q2}}

ReadBackInputs ==
    {[kind |-> "marks", df |-> ReadBackBank, existing |-> marks] : marks \in StoredMarkDicts}

ReadBackInit == PageInit /\ probe \in ReadBackInputs /\ answer = NoAnswer

\* the page run that shows the manual form of the loaded evaluation
ReadBack ==
    /\ answer = NoAnswer
    /\ answer' = evaluate_manual_questions(probe.df, probe.existing, EmptyDict)
    /\ UNCHANGED <<page, probe>>

ReadBackNext == ReadBack

ReadBackSpec == ReadBackInit /\ [][ReadBackNext]_vars

(***************************************************************************)
(* The scale mapping (src/evaluation.py 81-97, 265-270) applied to the     *)
(* question ids over a small alphabet, numeric or not, for a question with *)
(* any stored mark or none.                                                *)
(***************************************************************************)
IdChars == {"Q", "A", "L", "x", "1", "2", "3", " "}

ScaleInputs ==
    UNION {{[kind |-> "scale", qid |-> qid, existing |-> existing] :
               existing \in {EmptyDict} \cup {(qid :> m) : m \in 0..MaxStoredMark}} :
           qid \in SeqsUpTo(IdChars, MaxIdLen)}

ScaleInit == PageInit /\ probe \in ScaleInputs /\ answer = NoAnswer

\* the scale of the question and the mark its radio starts on
Scale ==
    /\ answer = NoAnswer
    /\ answer' = [scale_options |-> get_scale_options(probe.qid),
                  default_mark |-> default_mark(probe.existing, probe.qid)]
    /\ UNCHANGED <<page, probe>>

ScaleNext == Scale

ScaleSpec == ScaleInit /\ [][ScaleNext]_vars

(***************************************************************************)
(* The status of the open section (src/evaluation.py 293-306, 339-349):    *)
(* a section with two text questions is saved with some marks, and the     *)
(* page then runs with any marks selected on the form.                     *)
(***************************************************************************)
StatusBank == <<Row(Q12, "short"), Row(Q22, "short")>>

\* the marks a form over the two questions can hold
FormMarks == {(Q12 :> a) @@ (Q22 :> b) : a \in Range(RadioOptions(Q12)), b \in Range(RadioOptions(Q22))}

\* the student's only item, with the Evaluation a save has written or none
StatusItem(evaluation) ==
    [doc_id |-> "d1", section |-> Aptitude, responses |-> << >>, evaluation |-> evaluation]

\* the Evaluation the save handler writes when the form holds these marks
SavedWith(marks) ==
    evaluation_data(
        PageForSelection(<<StatusItem(EmptyDict)>>, StatusItem(EmptyDict), StatusBank, marks), 1)

StatusInputs ==
    {[kind |-> "status", stored |-> SavedWith(saved), form |-> form] :
        saved \in FormMarks, form \in FormMarks}

StatusInit == PageInit /\ probe \in StatusInputs /\ answer = NoAnswer

\* the run of the page on the saved section with the form's marks
ShowStatus ==
    /\ answer = NoAnswer
    /\ answer' = PageForSelection(<<StatusItem(probe.stored)>>, StatusItem(probe.stored),
                                  StatusBank, probe.form)
    /\ UNCHANGED <<page, probe>>

StatusNext == ShowStatus

StatusSpec == StatusInit /\ [][StatusNext]_vars

(***************************************************************************)
(* Bulk loading (src/evaluation.py 102-128, src/dashboard_app.py 44-86):   *)
(* the two loaders applied to a collection in which the first two          *)
(* documents hold any Roll and Section, or none.                           *)
(***************************************************************************)
\* marks a field the document does not have
Absent == <<"#absent">>

RollValues == {<< >>, <<" ">>, <<"R1">>, <<"Unknown">>} \cup NotAString \cup {Absent}

SectionValues == {<< >>, Aptitude} \cup NotAString \cup {Absent}

\* a stored document with these fields
Document(roll, section) ==
    [k \in {"Responses"} \cup (IF roll = Absent THEN {} ELSE {"Roll"})
                         \cup (IF section = Absent THEN {} ELSE {"Section"}) |->
        CASE k = "Roll" -> roll
          [] k = "Section" -> section
          [] OTHER -> << >>]

LoadInputs ==
    {[kind |-> "load",
      st |-> [d \in Docs |-> CASE d = "d1" -> Document(r1, s1)
                               [] d = "d2" -> Document(r2, s2)
                               [] OTHER -> InitialStore[d]]] :
        r1 \in RollValues, s1 \in SectionValues, r2 \in RollValues, s2 \in SectionValues}

LoadInit == PageInit /\ probe \in LoadInputs /\ answer = NoAnswer

\* one uncached call of each loader
Load ==
    /\ answer = NoAnswer
    /\ answer' = [roll_map |-> load_all_student_data(probe.st),
                  students |-> load_all_evaluations(probe.st)]
    /\ UNCHANGED <<page, probe>>

LoadNext == Load

LoadSpec == LoadInit /\ [][LoadNext]_vars

(***************************************************************************)
(* Vocabulary of the properties.                                           *)
(***************************************************************************)
\* every write of grader g's save has been made
Written(g) == pc[g] = "fanout" /\ pending[g] = << >>

\* no other grader is in the middle of a save
Quiet(g) == \A h \in Graders \ {g} : pc[h] # "fanout"

\* the final_total a document stores (0 when it stores none)
FinalTotal(st, d) == Get(EvalOf(st, d), "final_total", 0)

\* the sum of the stored final_total values of a student's documents
RECURSIVE SumFinalTotals(_, _, _)
SumFinalTotals(st, roll, i) ==
    IF i = 0 THEN 0
    ELSE SumFinalTotals(st, roll, i - 1)
         + (IF DocIds[i] \in StudentDocs(st, roll) THEN FinalTotal(st, DocIds[i]) ELSE 0)

StudentTotal(st, roll) == SumFinalTotals(st, roll, Len(DocIds))

\* document d stores the grand_total x
StoresGrandTotal(st, d, x) ==
    /\ "grand_total" \in DOMAIN EvalOf(st, d)
    /\ EvalOf(st, d)["grand_total"] = x

\* the documents the fan-out query returns for a roll
Reached(st, roll) == Range(WhereRoll(st, roll))

\* an Evaluation without its timestamp
Timeless(e) == [k \in DOMAIN e \ {"evaluated_at"} |-> e[k]]

\* the step changes of document d nothing but Evaluation.grand_total
OnlyGrandTotalChanges(d) ==
    /\ DOMAIN store'[d] = DOMAIN store[d] \cup {"Evaluation"}
    /\ \A k \in DOMAIN store[d] \ {"Evaluation"} : store'[d][k] = store[d][k]
    /\ DOMAIN EvalOf(store', d) = DOMAIN EvalOf(store, d) \cup {"grand_total"}
    /\ \A k \in DOMAIN EvalOf(store, d) \ {"grand_total"} :
           EvalOf(store', d)[k] = EvalOf(store, d)[k]

\* the manual marks a document stores ({} when it stores none)
StoredMarks(st, d) == Get(EvalOf(st, d), "manual_marks", EmptyDict)

(***************************************************************************)
(* C1 -- grand-total consistency, single grader.  When one grader's save   *)
(* has made all its writes, no store call having failed, every document of *)
(* the student stores a grand_total equal to the sum of the final_total    *)
(* values the student's documents store.                                   *)
(***************************************************************************)
C1_GrandTotalConsistency ==
    \A g \in Graders :
        (Written(g) /\ failures = 0) =>
            \A d \in StudentDocs(store, selected_roll[g]) :
                StoresGrandTotal(store, d, StudentTotal(store, selected_roll[g]))

(***************************************************************************)
(* C2 -- a save is all-or-nothing.  When a store call of a save fails, the *)
(* store is left as it was before the save started.                        *)
(***************************************************************************)
C2_AllOrNothing ==
    [][\A g \in Graders :
          (pc[g] = "fanout" /\ pc'[g] = "form" /\ failures' = failures + 1) =>
              store' = held[g].before]_vars

(***************************************************************************)
(* C3 -- agreement at rest.  When a save has made all its writes and no    *)
(* other save is under way, the documents stored under the student's roll  *)
(* all store the same grand_total.                                         *)
(***************************************************************************)
C3_AgreementAtRest ==
    \A g \in Graders :
        (Written(g) /\ Quiet(g)) =>
            \A d, e \in Reached(store, selected_roll[g]) :
                /\ "grand_total" \in DOMAIN EvalOf(store, d)
                /\ "grand_total" \in DOMAIN EvalOf(store, e)
                /\ EvalOf(store, d)["grand_total"] = EvalOf(store, e)["grand_total"]

(***************************************************************************)
(* C4 -- no lost updates.  When a save has made all its writes and no      *)
(* other save is under way, the grand_total stored under the student's     *)
(* roll is the sum of the final_total values the student's documents       *)
(* store: no grader's total is computed from a final_total that has since  *)
(* been replaced.                                                          *)
(***************************************************************************)
C4_NoLostUpdates ==
    \A g \in Graders :
        (Written(g) /\ Quiet(g)) =>
            \A d \in Reached(store, selected_roll[g]) :
                StoresGrandTotal(store, d, StudentTotal(store, selected_roll[g]))

(***************************************************************************)
(* C5 -- a save is idempotent.  When a grader saves a section again with   *)
(* the marks of their last completed save, no bank having been edited, the *)
(* student's documents store the Evaluation (timestamp aside) and the      *)
(* grand_total they stored after the first of the two saves.               *)
(***************************************************************************)
C5_IdempotentSave ==
    \A g \in Graders :
        (Written(g) /\ held[g].repeat /\ edits = 0) =>
            \A d \in StudentDocs(store, selected_roll[g]) :
                Timeless(EvalOf(store, d)) = Timeless(prior[g].evals[d])

(***************************************************************************)
(* C6 -- the frame of a save.  A step changes a document only if a grader  *)
(* is saving for that document's student, and then it is either the        *)
(* section being saved, written by the save's first update, or a document  *)
(* of the fan-out, of which nothing but Evaluation.grand_total changes.    *)
(***************************************************************************)
C6_SaveFrame ==
    [][\A d \in Docs :
          store'[d] # store[d] =>
              \E g \in Graders :
                  /\ d \in StudentDocs(store, selected_roll[g])
                  /\ \/ /\ pc[g] = "form"
                        /\ pc'[g] = "fanout"
                        /\ held'[g].doc_id = d
                     \/ /\ pc[g] = "fanout"
                        /\ pending[g] # << >>
                        /\ Head(pending[g]) = d
                        /\ OnlyGrandTotalChanges(d)]_vars

\* the descriptive section was saved with a mark, the aptitude section was
\* saved after it, and its fan-out has brought the new total to the
\* descriptive section; the other student's document stores no Evaluation
C6_Witness ==
    /\ "manual_marks" \in DOMAIN EvalOf(store, "d2")
    /\ "evaluated_at" \in DOMAIN EvalOf(store, "d1")
    /\ EvalOf(store, "d1")["evaluated_at"] > EvalOf(store, "d2")["evaluated_at"]
    /\ EvalOf(store, "d2")["manual_total"] = 1
    /\ EvalOf(store, "d2")["grand_total"]
           = EvalOf(store, "d1")["final_total"] + EvalOf(store, "d2")["final_total"]
    /\ "Evaluation" \notin DOMAIN store["d4"]

(***************************************************************************)
(* C7 -- manual_total is the sum of manual_marks.  In every stored         *)
(* Evaluation, manual_total equals the sum of the values of manual_marks.  *)
(***************************************************************************)
C7_ManualTotalIsSum ==
    \A d \in Docs :
        "manual_total" \in DOMAIN EvalOf(store, d) =>
            EvalOf(store, d)["manual_total"] = SumValues(StoredMarks(store, d))

(***************************************************************************)
(* C8 -- final_total is the sum of its parts.  In every stored Evaluation, *)
(* final_total = auto_mcq + auto_likert + manual_total.                    *)
(***************************************************************************)
C8_FinalTotalIsSum ==
    \A d \in Docs :
        "final_total" \in DOMAIN EvalOf(store, d) =>
            EvalOf(store, d)["final_total"]
                = EvalOf(store, d)["auto_mcq"] + EvalOf(store, d)["auto_likert"]
                  + EvalOf(store, d)["manual_total"]

\* the aptitude section is stored with an MCQ point and two manual marks, the
\* adaptability section with its Likert score
C8_Witness ==
    /\ "final_total" \in DOMAIN EvalOf(store, "d1")
    /\ "final_total" \in DOMAIN EvalOf(store, "d3")
    /\ EvalOf(store, "d1")["auto_mcq"] = 1
    /\ EvalOf(store, "d1")["manual_total"] = 2
    /\ EvalOf(store, "d1")["final_total"] = 3
    /\ EvalOf(store, "d3")["auto_likert"] = 2
    /\ EvalOf(store, "d3")["final_total"] = 2

SaveStands(g) ==
    /\ pc[g] = "form"
    /\ prior[g] # NoPrior
    /\ Get(EvalOf(store, prior[g].doc_id), "evaluated_at", 0) = prior[g].stamp
    /\ Range(manual_questions(csv[selected_test[g]])) = DOMAIN prior[g].form

C10_RoundTrip ==
    \A g \in Graders :
        SaveStands(g) =>
            /\ Page(cache, selected_roll[g], selected_test[g], EmptyDict).form
                   = prior[g].form
            /\ Page(cache, selected_roll[g], selected_test[g], EmptyDict).manual_total
                   = EvalOf(store, prior[g].doc_id)["manual_total"]

\* a save of the aptitude section with the mark 2 for Q12 has completed
C10_Witness ==
    \E g \in Graders :
        /\ SaveStands(g)
        /\ prior[g].doc_id = "d1"
        /\ Q12 \in DOMAIN prior[g].form
        /\ prior[g].form[Q12] = 2
        /\ StoredMarks(store, "d1")[Q12] = 2

(***************************************************************************)
(* C11 -- Likert mapping.  A response to a likert question contributes     *)
(* 0, 1, 2, 3, 4 for the inputs 1, 2, 3, 4, 5 and 0 for every other input; *)
(* the Likert score is the sum of the contributions.                       *)
(***************************************************************************)
\* the contribution the mapping gives a trimmed input
LikertContribution(text) ==
    IF Strip(text) \in {<<"1">>, <<"2">>, <<"3">>, <<"4">>, <<"5">>}
    THEN DecimalValue(Strip(text)) - 1
    ELSE 0

RECURSIVE SumContributions(_, _)
SumContributions(responses, i) ==
    IF i = 0 THEN 0
    ELSE SumContributions(responses, i - 1) + LikertContribution(responses[i]["Response"])

C11_LikertMapping ==
    (answer # NoAnswer /\ probe.kind = "likert") =>
        answer.scores[2] = SumContributions(probe.responses, Len(probe.responses))

(***************************************************************************)
(* C12 -- MCQ correctness.  Every response to an mcq question whose        *)
(* trimmed answer equals the trimmed correct answer of the bank earns one  *)
(* point, whatever characters the answer contains: the MCQ score is at     *)
(* least the number of such responses.                                     *)
(***************************************************************************)
\* the response carries the bank's answer, both trimmed
EqualAnswer(response, row) ==
    /\ "Response" \in DOMAIN response
    /\ Strip(response["Response"]) # << >>
    /\ Strip(response["Response"]) = Strip(row["Answer"])

EqualAnswers(responses, row) ==
    Cardinality({i \in DOMAIN responses : EqualAnswer(responses[i], row)})

C12_McqCorrectness ==
    (answer # NoAnswer /\ probe.kind = "mcq") =>
        answer.scores[1] >= EqualAnswers(probe.responses, probe.df[1])

(***************************************************************************)
(* C20 -- correct-answer column resolution.  The correct answer of an mcq  *)
(* row is the value of the first column, in the order Answer,              *)
(* CorrectAnswer, Correct, Ans, AnswerKey, RightAnswer, that the row       *)
(* holds: a response earns its point exactly when it carries that value.   *)
(***************************************************************************)
ResolutionOrder ==
    <<"Answer", "CorrectAnswer", "Correct", "Ans", "AnswerKey", "RightAnswer">>

\* the value of the first column of the order that the row holds
ResolvedAnswer(row) ==
    row[ResolutionOrder[CHOOSE i \in 1..Len(ResolutionOrder) :
                            /\ ResolutionOrder[i] \in DOMAIN row
                            /\ \A j \in 1..(i - 1) : ResolutionOrder[j] \notin DOMAIN row]]

C20_AnswerColumnOrder ==
    (answer # NoAnswer /\ probe.kind = "key") =>
        answer.scores[1]
            = (IF Lower(probe.responses[1]["Response"]) = Lower(ResolvedAnswer(probe.df[1]))
               THEN 1 ELSE 0)

(***************************************************************************)
(* C19 -- tolerant read-back.  When an evaluation is loaded, every manual  *)
(* question is shown with its stored mark if that mark is on the           *)
(* question's scale, and with 0 if the mark is off the scale or there is   *)
(* none; the form covers every question and the total is the sum of what   *)
(* is shown, so one bad mark changes nothing for the other questions.      *)
(***************************************************************************)
TopOfScale(qid) ==
    IF parse_qid(qid) \in FOUR_POINT_QUESTIONS THEN 3
    ELSE IF parse_qid(qid) \in THREE_POINT_QUESTIONS THEN 2 ELSE 1

ShownMark(existing, qid) ==
    IF qid \in DOMAIN existing /\ existing[qid] \in 0..TopOfScale(qid)
    THEN existing[qid] ELSE 0

C19_TolerantReadBack ==
    (answer # NoAnswer /\ probe.kind = "marks") =>
        /\ DOMAIN answer.form = {Q12, Q22, Q2}
        /\ \A qid \in DOMAIN answer.form : answer.form[qid] = ShownMark(probe.existing, qid)
        /\ answer.manual_total
            = ShownMark(probe.existing, Q12) + ShownMark(probe.existing, Q22)
                + ShownMark(probe.existing, Q2)

\* a load with an off-scale mark next to a kept one and a question never marked
C19_Witness ==
    /\ answer # NoAnswer
    /\ probe.kind = "marks"
    /\ DOMAIN probe.existing = {Q12, Q22}
    /\ probe.existing[Q12] = 4
    /\ probe.existing[Q22] = 2
    /\ answer.form = (Q12 :> 0) @@ (Q22 :> 2) @@ (Q2 :> 0)

(***************************************************************************)
(* C15 -- bulk loading degrades per record.  Each loader returns exactly   *)
(* the documents whose Roll and Section are both non-empty strings: a      *)
(* document whose Roll or Section is missing, empty, null or not a string  *)
(* is left out and costs no other document its place.                      *)
(***************************************************************************)
WellFormed(data) ==
    /\ "Roll" \in DOMAIN data /\ data["Roll"] \notin NotAString
    /\ "Section" \in DOMAIN data /\ data["Section"] \notin NotAString
    /\ Strip(data["Roll"]) # << >>
    /\ Strip(data["Section"]) # << >>

InRollMap(roll_map, d) ==
    \E roll \in DOMAIN roll_map : \E i \in 1..Len(roll_map[roll]) : roll_map[roll][i].doc_id = d

InStudents(students, d) == \E i \in 1..Len(students) : students[i].doc_id = d

C15_PerRecordLoading ==
    (answer # NoAnswer /\ probe.kind = "load") =>
        \A d \in Docs :
            /\ WellFormed(probe.st[d]) <=> InRollMap(answer.roll_map, d)
            /\ WellFormed(probe.st[d]) <=> InStudents(answer.students, d)

(***************************************************************************)
(* C18 -- evaluated means saved.  A document that the dashboard reports as *)
(* evaluated (is_fully_evaluated), or the progress table of the page as    *)
(* Saved, is a document whose Evaluation a save handler has written.  Only *)
(* the handler's first update stores evaluated_at, so the document then    *)
(* stores that timestamp.                                                  *)
(***************************************************************************)
SaveWritten(d) == "evaluated_at" \in DOMAIN EvalOf(store, d)

\* the progress table shows the item as Saved, as the current test or as another
ShownSaved(item) ==
    \/ test_progress(item, "", 0).Status = "Saved"
    \/ test_progress(item, item.doc_id, Get(item.evaluation, "final_total", 0)).Status = "Saved"

C18_EvaluatedMeansSaved ==
    /\ \A i \in 1..Len(load_all_evaluations(store)) :
           load_all_evaluations(store)[i].is_fully_evaluated
               => SaveWritten(load_all_evaluations(store)[i].doc_id)
    /\ \A roll \in DOMAIN cache :
           \A i \in 1..Len(cache[roll]) :
               ShownSaved(cache[roll][i]) => SaveWritten(cache[roll][i].doc_id)

(***************************************************************************)
(* C16 -- no way back to Pending.  No step removes a stored final_total    *)
(* from a document, and a document that the cached data shows with a final *)
(* total (the progress table then says Saved or Editing) is never shown    *)
(* as Pending by the data cached after the step.                           *)
(***************************************************************************)
Pending(item) == test_progress(item, "", 0).Status = "Pending"

C16_NoWayBackToPending ==
    [][/\ \A d \in Docs :
              "final_total" \in DOMAIN EvalOf(store, d)
                  => "final_total" \in DOMAIN EvalOf(store', d)
       /\ \A roll \in DOMAIN cache :
              \A i \in 1..Len(cache[roll]) :
                  ~Pending(cache[roll][i]) =>
                      \A other \in DOMAIN cache' :
                          \A j \in 1..Len(cache'[other]) :
                              cache'[other][j].doc_id = cache[roll][i].doc_id
                                  => ~Pending(cache'[other][j])]_vars

\* the aptitude section was saved, then the descriptive one, whose fan-out has
\* updated the aptitude document; the reloaded page shows both with their totals
C16_Witness ==
    /\ "final_total" \in DOMAIN EvalOf(store, "d1")
    /\ "final_total" \in DOMAIN EvalOf(store, "d2")
    /\ EvalOf(store, "d1")["evaluated_at"] < EvalOf(store, "d2")["evaluated_at"]
    /\ pc["g1"] = "form"
    /\ <<"R1">> \in DOMAIN cache
    /\ \A i \in 1..Len(cache[<<"R1">>]) :
           cache[<<"R1">>][i].doc_id \in {"d1", "d2"} => ~Pending(cache[<<"R1">>][i])

(***************************************************************************)
(* C17 -- the grand total does not trust stored totals.  The grand_total a *)
(* save writes is the final_total it stores for the saved section plus,    *)
(* for every other section of the student, the MCQ and Likert scores       *)
(* recomputed from the section's bank and responses plus the manual_total  *)
(* the section stores (0 when it was never saved).                         *)
(***************************************************************************)
\* the auto scores of document b recomputed, plus its stored manual_total
FreshScore(st, b) ==
    calculate_auto_scores(csv[Strip(st[b]["Section"])], Get(st[b], "Responses", << >>))[1]
    + calculate_auto_scores(csv[Strip(st[b]["Section"])], Get(st[b], "Responses", << >>))[2]
    + Get(EvalOf(st, b), "manual_total", 0)

RECURSIVE SumFreshScores(_, _, _, _)
SumFreshScores(st, roll, saved, i) ==
    IF i = 0 THEN 0
    ELSE SumFreshScores(st, roll, saved, i - 1)
         + (IF DocIds[i] \in StudentDocs(st, roll) \ {saved}
            THEN FreshScore(st, DocIds[i]) ELSE 0)

C17_FreshGrandTotal ==
    [][\A g \in Graders :
           (pc[g] = "form" /\ pc'[g] = "fanout") =>
               held'[g].grand_total
                   = EvalOf(store', held'[g].doc_id)["final_total"]
                     + SumFreshScores(store, selected_roll[g], held'[g].doc_id,
                                      Len(DocIds))]_vars

(***************************************************************************)
(* C13 -- N/A versus zero in the export.  For a document saved through the *)
(* evaluation page, the exported MCQ cell is the marker N/A exactly when   *)
(* the section's bank has no mcq row, and is the saved MCQ score, 0        *)
(* included, when it has; likewise the Likert cell and the Text cell.      *)
(***************************************************************************)
HasRowsOfType(df, types) == \E i \in 1..Len(df) : Get(df[i], "Type", << >>) \in types

\* the cell of a kind of question: the saved score, or N/A when the bank has none
ExpectedCell(d, types, key) ==
    IF HasRowsOfType(csv[store[d]["Section"]], types)
    THEN Num(EvalOf(store, d)[key]) ELSE NACell

C13_NotApplicableVersusZero ==
    \A d \in Docs :
        SaveWritten(d) =>
            \A i \in 1..Len(df_final(store)) :
                (/\ df_final(store)[i]["Roll Number"] = store[d]["Roll"]
                 /\ df_final(store)[i]["Section"] = store[d]["Section"]) =>
                    /\ df_final(store)[i]["MCQ Score"]
                           = ExpectedCell(d, {<<"mcq">>}, "auto_mcq")
                    /\ df_final(store)[i]["Likert Score"]
                           = ExpectedCell(d, {<<"likert">>}, "auto_likert")
                    /\ df_final(store)[i]["Text Score"]
                           = ExpectedCell(d, {<<"short">>, <<"descriptive">>}, "manual_total")

(***************************************************************************)
(* C14 -- one grand total per student in the export.  When no save is in   *)
(* progress and no store call has failed, the rows of a student who has a  *)
(* stored grand_total show it exactly once, on the first of the student's  *)
(* rows in the output order; the later rows have the cell blank.  A        *)
(* student is a roll number as the loaders read it, stripped.              *)
(***************************************************************************)
StudentRows(df, roll) == {i \in 1..Len(df) : Strip(df[i]["Roll Number"]) = roll}

NonBlank(cell) == cell.kind = "num"

C14_OneGrandTotalPerStudent ==
    ((\A g \in Graders : pc[g] # "fanout") /\ failures = 0) =>
        \A roll \in {Strip(store[d]["Roll"]) : d \in Docs} :
            (\E d \in StudentDocs(store, roll) : "grand_total" \in DOMAIN EvalOf(store, d)) =>
                \A i \in StudentRows(df_final(store), roll) :
                    NonBlank(df_final(store)[i]["Grand Total (All Tests)"])
                        <=> (\A j \in StudentRows(df_final(store), roll) : i <= j)

(***************************************************************************)
(* C21 -- exact question lookup.  A response is scored against the bank    *)
(* row whose trimmed QuestionID equals the response's trimmed question id, *)
(* and earns nothing when no row has that id: the scores are those of      *)
(* scoring each response against the row of its own id only.               *)
(***************************************************************************)
\* the points of a response scored against the row that carries exactly its id
ExactPoints(df, response) ==
    IF \E i \in 1..Len(df) : Strip(df[i]["QuestionID"]) = Strip(response["QuestionID"])
    THEN ResponsePoints(
             Strip(response["QuestionID"])
                 :> df[CHOOSE i \in 1..Len(df) :
                           Strip(df[i]["QuestionID"]) = Strip(response["QuestionID"])],
             response)
    ELSE <<0, 0>>

C21_ExactLookup ==
    (answer # NoAnswer /\ probe.kind = "lookup") =>
        answer.scores = ExactPoints(probe.df, probe.responses[1])

(***************************************************************************)
(* C22 -- a type mismatch is skipped.  A response matched to an mcq row    *)
(* leaves the Likert score alone, one matched to a likert row leaves the   *)
(* MCQ score alone, and one matched to a row of any other type changes     *)
(* neither score.                                                          *)
(***************************************************************************)
RowType(row) == Strip(Lower(row["Type"]))

C22_TypeMismatchSkipped ==
    (answer # NoAnswer /\ probe.kind = "type") =>
        /\ RowType(probe.df[1]) = <<"mcq">> => answer.scores[2] = 0
        /\ RowType(probe.df[1]) = <<"likert">> => answer.scores[1] = 0
        /\ RowType(probe.df[1]) \notin {<<"mcq">>, <<"likert">>} => answer.scores = <<0, 0>>

\* the answer 5 earns its MCQ point on an mcq row and no Likert point
C22_Witness ==
    /\ answer # NoAnswer
    /\ probe.kind = "type"
    /\ probe.df[1]["Type"] = <<"mcq">>
    /\ probe.responses[1]["Response"] = <<"5">>
    /\ answer.scores = <<1, 0>>

(***************************************************************************)
(* C30 -- auto scores are bounded by the bank.  Whatever the responses,    *)
(* the MCQ score is between 0 and the number of mcq rows of the bank, and  *)
(* the Likert score between 0 and 4 times the number of likert rows.       *)
(***************************************************************************)
RowsOfType(df, type) == Cardinality({i \in 1..Len(df) : RowType(df[i]) = type})

C30_ScoresBoundedByBank ==
    (answer # NoAnswer /\ probe.kind \in {"mcq", "likert"}) =>
        /\ answer.scores[1] \in 0..RowsOfType(probe.df, <<"mcq">>)
        /\ answer.scores[2] \in 0..(4 * RowsOfType(probe.df, <<"likert">>))

(***************************************************************************)
(* C23 -- the scale is a total function of the question id.  For every id, *)
(* numeric or not, get_scale_options returns [0,1], [0,1,2] or [0,1,2,3],  *)
(* a contiguous ascending list that starts at 0, and the mark the form     *)
(* starts on is on that list whatever mark is stored for the question.     *)
(***************************************************************************)
C23_ScaleIsTotal ==
    (answer # NoAnswer /\ probe.kind = "scale") =>
        /\ answer.scale_options \in {<<0, 1>>, <<0, 1, 2>>, <<0, 1, 2, 3>>}
        /\ \A i \in 1..Len(answer.scale_options) : answer.scale_options[i] = i - 1
        /\ answer.default_mark \in Range(answer.scale_options)

\* an id that is no number, with a stored mark above every scale
C23_Witness ==
    /\ answer # NoAnswer
    /\ probe.kind = "scale"
    /\ probe.qid = <<"x", " ", "2">>
    /\ probe.existing = (<<"x", " ", "2">> :> 4)
    /\ answer.scale_options = <<0, 1>>
    /\ answer.default_mark = 0

(***************************************************************************)
(* C24 -- scale allow-list by numeric suffix.  An id that is a number n,   *)
(* or one letter followed by a number n, has the scale [0,1,2,3] when n is *)
(* in {12,13,14,16,17,18}, [0,1,2] when n is in {22,23,24,25,28,29,30,34}, *)
(* and [0,1] otherwise.                                                    *)
(***************************************************************************)
IsLetter(c) == c \in {"Q", "A", "L", "x"}

\* the number of an id that is a number or a letter and a number, else -1
NumericSuffix(qid) ==
    IF IsDigitStr(qid) THEN DecimalValue(qid)
    ELSE IF Len(qid) > 1 /\ IsLetter(qid[1]) /\ IsDigitStr(Tail(qid))
         THEN DecimalValue(Tail(qid))
    ELSE 0 - 1

C24_ScaleByNumericSuffix ==
    (answer # NoAnswer /\ probe.kind = "scale" /\ NumericSuffix(probe.qid) >= 0) =>
        answer.scale_options
            = (IF NumericSuffix(probe.qid) \in {12, 13, 14, 16, 17, 18} THEN <<0, 1, 2, 3>>
               ELSE IF NumericSuffix(probe.qid) \in {22, 23, 24, 25, 28, 29, 30, 34}
                    THEN <<0, 1, 2>>
               ELSE <<0, 1>>)

(***************************************************************************)
(* C25 -- exported final score.  For a document whose Evaluation a save    *)
(* has written, the 'Final Score (This Test)' cell of its row in the       *)
(* exported table is the final_total that Evaluation stores.               *)
(***************************************************************************)
C25_ExportedFinalScore ==
    \A d \in Docs :
        SaveWritten(d) =>
            \A i \in 1..Len(df_final(store)) :
                (/\ df_final(store)[i]["Roll Number"] = store[d]["Roll"]
                 /\ df_final(store)[i]["Section"] = store[d]["Section"]) =>
                    df_final(store)[i]["Final Score (This Test)"]
                        = Num(EvalOf(store, d)["final_total"])

(***************************************************************************)
(* C26 -- auto scores are always re-derived.  The auto_mcq and auto_likert *)
(* the page shows, and those a save writes, are the scores of the          *)
(* document's responses against the section's bank as it is at that        *)
(* moment, whatever auto scores the document stored before.                *)
(***************************************************************************)
\* the scores of document d's stored responses against the bank as it is
DerivedScores(d) ==
    calculate_auto_scores(csv[Strip(store[d]["Section"])], store[d]["Responses"])

\* the run p shows the derived scores of its document
ShowsDerivedScores(p) == <<p.auto_mcq, p.auto_likert>> = DerivedScores(p.doc_id)

C26_AutoScoresRederived ==
    [][\A g \in Graders :
           /\ pc[g] = "form" => ShowsDerivedScores(PageOf(g))
           /\ (pc[g] = "form" /\ pc'[g] = "fanout") =>
                  <<EvalOf(store', held'[g].doc_id)["auto_mcq"],
                    EvalOf(store', held'[g].doc_id)["auto_likert"]>>
                      = DerivedScores(held'[g].doc_id)]_vars

\* the aptitude section stored the MCQ score 1; the bank was edited, and the save
\* that followed has written the score 2
C26_Witness ==
    /\ edits = 1
    /\ pc["g1"] = "fanout"
    /\ held["g1"].doc_id = "d1"
    /\ EvalOf(held["g1"].before, "d1") # EmptyDict
    /\ EvalOf(held["g1"].before, "d1")["auto_mcq"] = 1
    /\ EvalOf(store, "d1")["auto_mcq"] = 2

(***************************************************************************)
(* C27 -- status of the open section.  The section being graded is shown   *)
(* as Saved exactly when the marks selected on the form equal, question by *)
(* question, the manual_marks the section stores, and as Editing when some *)
(* selected mark differs from the stored one.                              *)
(***************************************************************************)
C27_StatusOfOpenSection ==
    (answer # NoAnswer /\ probe.kind = "status") =>
        /\ answer.progress_data[1].Status \in {"Saved", "Editing"}
        /\ answer.progress_data[1].Status = "Saved"
               <=> answer.form = probe.stored["manual_marks"]

(***************************************************************************)
(* C28 -- the two grand totals of the page agree.  Whenever a grader has   *)
(* the page open, the GRAND TOTAL row of the downloadable report equals    *)
(* the Real-Time Grand Total the page displays and writes on save.         *)
(***************************************************************************)
C28_GrandTotalsAgree ==
    \A g \in Graders :
        pc[g] = "form" =>
            export_grand_total(cache[selected_roll[g]], PageOf(g))
                = PageOf(g).real_time_grand_total

(***************************************************************************)
(* C29 -- the fan-out covers the student's group.  The documents that      *)
(* receive the grand_total of a save, the saved document and those the     *)
(* fan-out query returns, are exactly the documents grouped under the      *)
(* selected roll, those whose stripped Roll is the selected roll.          *)
(***************************************************************************)
C29_FanOutCoversGroup ==
    \A g \in Graders :
        pc[g] = "fanout" =>
            {held[g].doc_id} \cup Reached(store, selected_roll[g])
                = StudentDocs(store, selected_roll[g])

====
